---- MODULE Spec2Model ----
(***************************************************************************)
(* Text-to-SQL generation and execution pipeline of sqlchat:               *)
(* app.py (query_handler and the form handlers), ingest_utils.py           *)
(* (csv_to_sql, create_table_from_text, insert_rows_from_text),            *)
(* llm_utils.py (call_llm and the prompt functions) and db_utils.py        *)
(* (run_sql, get_table_schema).                                            *)
(*                                                                         *)
(* Texts are sequences of tokens.  The token FENCE is a code-fence marker (three backquotes), *)
(* "sql" the language tag, ";" the statement terminator, " " any           *)
(* whitespace (blank or newline) and "a" any other piece of text.          *)
(***************************************************************************)
EXTENDS Integers, Sequences, FiniteSets, TLC

\* ---------------------------------------------------------------- bounds
MaxRawLen == 4
MaxTextLen == 6
MaxRows == 2
MaxCols == 2
MaxEscLen == 3
MaxCalls == 3

\* ---------------------------------------------------------------- texts
Fence == "FENCE"
Tokens == {Fence, "sql", ";", " ", "a"}
FenceSql == <<Fence, "sql">>

SeqsUpTo(S, n) == UNION {[1..k -> S] : k \in 0..n}

\* a fenced statement, an untagged fenced statement, three statements
SampleTexts ==
  { <<Fence, "sql", " ", "a", ";", " ", Fence>>,
    <<Fence, " ", "a", ";", " ", Fence>>,
    <<"a", ";", " ", "a", ";", " ", "a", ";">> }

GeneratedTexts == SeqsUpTo(Tokens, MaxRawLen) \cup SampleTexts

\* the text call_llm returns when the backend call raises
LlmErrorText == <<"Error calling LLM">>

RECURSIVE LStrip(_)
LStrip(s) == IF s # <<>> /\ Head(s) = " " THEN LStrip(Tail(s)) ELSE s

RECURSIVE RStrip(_)
RStrip(s) ==
  IF s # <<>> /\ s[Len(s)] = " " THEN RStrip(SubSeq(s, 1, Len(s) - 1)) ELSE s

\* str.strip()
Strip(s) == RStrip(LStrip(s))

\* str.startswith(p)
StartsWith(s, p) == Len(s) >= Len(p) /\ SubSeq(s, 1, Len(p)) = p

\* str.replace(p, "")
RECURSIVE Remove(_, _)
Remove(s, p) ==
  IF s = <<>> THEN <<>>
  ELSE IF StartsWith(s, p) THEN Remove(SubSeq(s, Len(p) + 1, Len(s)), p)
  ELSE <<Head(s)>> \o Remove(Tail(s), p)

\* "Clean up response": strip, and when the text starts with a fence tagged
\* sql, drop every tagged fence, then every fence, and strip again
CleanResponse(text) ==
  LET s == Strip(text)
  IN  IF StartsWith(s, FenceSql)
      THEN Strip(Remove(Remove(s, FenceSql), <<Fence>>))
      ELSE s

\* str.split on the terminator
RECURSIVE SplitAt(_, _, _)
SplitAt(s, sep, cur) ==
  IF s = <<>> THEN <<cur>>
  ELSE IF Head(s) = sep THEN <<cur>> \o SplitAt(Tail(s), sep, <<>>)
  ELSE SplitAt(Tail(s), sep, Append(cur, Head(s)))

Split(s, sep) == SplitAt(s, sep, <<>>)

\* variant: the terminator is not appended again
RECURSIVE KeepNonBlankBare(_)
KeepNonBlankBare(frags) ==
  IF frags = <<>> THEN <<>>
  ELSE IF Strip(Head(frags)) # <<>>
       THEN <<Strip(Head(frags))>> \o KeepNonBlankBare(Tail(frags))
       ELSE KeepNonBlankBare(Tail(frags))

RECURSIVE KeepNonBlank(_)
KeepNonBlank(frags) ==
  IF frags = <<>> THEN <<>>
  ELSE IF Strip(Head(frags)) # <<>>
       THEN <<Append(Strip(Head(frags)), ";")>> \o KeepNonBlank(Tail(frags))
       ELSE KeepNonBlank(Tail(frags))

\* each non-blank fragment of the split, stripped, with the terminator appended
SplitStatements(sql) == KeepNonBlank(Split(sql, ";"))

\* the cleaning and splitting of insert_rows_from_text, as one function
Sanitize(text) == SplitStatements(CleanResponse(text))

RECURSIVE Concat(_)
Concat(ss) == IF ss = <<>> THEN <<>> ELSE Head(ss) \o Concat(Tail(ss))

\* ---------------------------------------------------------------- inputs
TableNames == {"t1", "t2"}
Questions == {"", "q"}
Descriptions == {"", "d"}
NameInputs == TableNames \cup {""}
RowSets == {<<>>, <<"r">>}
Explanations == {<<"a">>}

\* ------------------------------------------------------- run_sql results
ConnectError == "Error: Could not connect to database"
ExecuteError == "Error executing query"
SuccessMsg == "Success: Query executed"
SchemaError == "Error fetching schema"
ErrorStrings == {ConnectError, ExecuteError, SchemaError}

\* run_sql returns a str (a message) or a dict (columns and rows)
StrResult(s) == [type |-> "str", value |-> s]
RowsResult(rows) == [type |-> "dict", columns |-> <<"c">>, rows |-> rows]
NoResult == StrResult("")

\* isinstance(results, str)
IsStr(r) == r.type = "str"

\* "Error" in result, for the strings the program produces
HasError(r) == r.value \in ErrorStrings

\* what run_sql can return for one call
RunSqlResults(fetch) ==
  {StrResult(ConnectError), StrResult(ExecuteError)}
    \cup (IF fetch THEN {RowsResult(rows) : rows \in RowSets}
                   ELSE {StrResult(SuccessMsg)})

\* the rendering get_table_schema returns for an existing table
SchemaText(t) == "Table: " \o t

NoText == <<>>
NoReport == [kind |-> "none"]

VARIABLES
  pc,            \* position of the request being served
  op,            \* the operation being served
  question, table_name, description,   \* the inputs of the request
  file, df,      \* csv_to_sql: the uploaded file and the frame read from it
  schema,        \* query_handler: result of get_table_schema
  raw,           \* text returned by the prompt function
  genFailed,     \* call_llm took its except branch in the generation call
  sql,           \* the cleaned text
  statements,    \* insert_rows_from_text: the split statements
  result,        \* result of the last run_sql call
  results,       \* insert_rows_from_text: results list
  insert_count,  \* csv_to_sql: rows inserted
  executed,      \* run_sql calls of this request, in order
  llmCalls,      \* prompt function calls of this request, in order
  report,        \* what the handler returned
  tables,        \* tables existing in the database
  resanitized,   \* sanitizer check: statements of the re-serialized text
  dbpc,          \* db_utils: position inside the database call being made
  dbfn,          \* db_utils: the function called and its fetch argument
  connection,    \* db_utils: the local variable connection (0: None)
  dbresult,      \* db_utils: what the call returns
  openConns,     \* connections opened by database calls and not closed
  opened,        \* number of connections opened so far
  executions     \* connection used by each cursor.execute, in order

vars == <<pc, op, question, table_name, description, file, df, schema, raw,
          genFailed, sql, statements, result, results, insert_count,
          executed, llmCalls, report, tables, resanitized,
          dbpc, dbfn, connection, dbresult, openConns, opened, executions>>

db == <<dbpc, dbfn, connection, dbresult, openConns, opened, executions>>

\* no database call is under way and none has been made
DbIdle ==
  /\ dbpc = "idle" /\ dbfn = "none" /\ connection = 0 /\ dbresult = "none"
  /\ openConns = {} /\ opened = 0 /\ executions = <<>>

inputs == <<question, table_name, description, file, df>>
scratch == <<schema, raw, genFailed, sql, statements, result, results,
             insert_count>>

Init ==
  /\ pc = "Idle"
  /\ op = "none"
  /\ question = "" /\ table_name = "" /\ description = ""
  /\ file = "none" /\ df = <<>>
  /\ schema = "" /\ raw = NoText /\ genFailed = FALSE /\ sql = NoText
  /\ statements = <<>> /\ result = NoResult /\ results = <<>>
  /\ insert_count = 0
  /\ executed = <<>> /\ llmCalls = <<>>
  /\ report = NoReport
  /\ tables \in SUBSET TableNames
  /\ resanitized = <<>>
  /\ DbIdle

\* one run_sql call: the call is recorded with what it returned
Executed(query, fetch, r) == [query |-> query, fetch |-> fetch, result |-> r]

\* call_llm: the stripped completion, or the error text when the call raises
CallLlm(content, ok) == IF ok THEN Strip(content) ELSE LlmErrorText

\* --------------------------------------------------------- query_handler
QueryReport(res, q, expl) ==
  [kind |-> "query", results |-> res, sql |-> q, explanation |-> expl]

\* format of the result block shown to the user
ResultText(res) == [type |-> "text", columns |-> res.columns, rows |-> res.rows]

\* variant: only a failed connect counts as a failed execution
ExecutionFailedConnectOnly(r) == IsStr(r) /\ r.value = ConnectError

\* isinstance(results, str) and "Error" in results
ExecutionFailed(r) == IsStr(r) /\ HasError(r)

QueryStart ==
  /\ pc = "Idle"
  /\ \E q \in Questions, t \in NameInputs :
       /\ question' = q
       /\ table_name' = t
       /\ op' = "query"
       /\ IF q = "" \/ t = ""
          THEN /\ report' = QueryReport(StrResult("Please provide both"), NoText, NoText)
               /\ pc' = "Done"
          ELSE /\ report' = report
               /\ pc' = "q_schema"
  /\ UNCHANGED <<description, file, df, scratch, executed, llmCalls, tables,
                 resanitized>>
  /\ UNCHANGED db

\* get_table_schema: DESCRIBE fails on a missing table or a failed connect
GetTableSchemaResults(t) ==
  {ConnectError, SchemaError} \cup (IF t \in tables THEN {SchemaText(t)} ELSE {})

QueryGetSchema ==
  /\ pc = "q_schema"
  /\ \E s \in GetTableSchemaResults(table_name) : schema' = s
  /\ pc' = "q_generate"
  /\ UNCHANGED <<op, inputs, raw, genFailed, sql, statements, result, results,
                 insert_count, executed, llmCalls, report, tables, resanitized>>
  /\ UNCHANGED db

QueryGenerate ==
  /\ pc = "q_generate"
  /\ \E content \in GeneratedTexts, ok \in BOOLEAN :
       /\ raw' = CallLlm(content, ok)
       /\ genFailed' = ~ok
       /\ sql' = CleanResponse(CallLlm(content, ok))
       /\ llmCalls' = Append(llmCalls,
            [fn |-> "prompt_text_to_sql", question |-> question,
             context |-> schema, rows |-> <<>>, ok |-> ok])
  /\ pc' = "q_execute"
  /\ UNCHANGED <<op, inputs, schema, statements, result, results,
                 insert_count, executed, report, tables, resanitized>>
  /\ UNCHANGED db

QueryExecute ==
  /\ pc = "q_execute"
  /\ \E r \in RunSqlResults(TRUE) :
       /\ result' = r
       /\ executed' = Append(executed, Executed(sql, TRUE, r))
       /\ IF ExecutionFailed(r)
          THEN /\ report' = QueryReport(r, sql, NoText)
               /\ pc' = "Done"
          ELSE /\ report' = report
               /\ pc' = "q_explain"
  /\ UNCHANGED <<op, inputs, schema, raw, genFailed, sql, statements, results,
                 insert_count, llmCalls, tables, resanitized>>
  /\ UNCHANGED db

QueryExplain ==
  /\ pc = "q_explain"
  /\ \E content \in Explanations, ok \in BOOLEAN :
       /\ llmCalls' = Append(llmCalls,
            [fn |-> "prompt_explain_results", question |-> question,
             context |-> sql, rows |-> result.rows, ok |-> ok])
       /\ report' = QueryReport(ResultText(result), sql, CallLlm(content, ok))
  /\ pc' = "Done"
  /\ UNCHANGED <<op, inputs, scratch, executed, tables, resanitized>>
  /\ UNCHANGED db


\* ------------------------------------------------ create_table_from_text
\* variant: a failed execution is reported without the SQL text
CreateTableReportNoSqlOnError(q, r) ==
  [kind |-> "create", sql |-> IF HasError(r) THEN NoText ELSE q, result |-> r]

\* the report string: the cleaned SQL text, then the result
CreateTableReport(q, r) == [kind |-> "create", sql |-> q, result |-> r]

CreateStart ==
  /\ pc = "Idle"
  /\ \E d \in Descriptions :
       /\ description' = d
       /\ op' = "create"
       /\ IF d = ""
          THEN /\ report' = [kind |-> "create",
                             message |-> "Please provide a table description"]
               /\ pc' = "Done"
          ELSE /\ report' = report
               /\ pc' = "ct_generate"
  /\ UNCHANGED <<question, table_name, df, file, scratch, executed, llmCalls,
                 tables, resanitized>>
  /\ UNCHANGED db

CreateGenerate ==
  /\ pc = "ct_generate"
  /\ \E content \in GeneratedTexts, ok \in BOOLEAN :
       /\ raw' = CallLlm(content, ok)
       /\ genFailed' = ~ok
       /\ sql' = CleanResponse(CallLlm(content, ok))
       /\ llmCalls' = Append(llmCalls,
            [fn |-> "prompt_create_table", question |-> description,
             context |-> "", rows |-> <<>>, ok |-> ok])
  /\ pc' = "ct_execute"
  /\ UNCHANGED <<op, inputs, schema, statements, result, results,
                 insert_count, executed, report, tables, resanitized>>
  /\ UNCHANGED db

\* a generated statement that succeeds may have created a table
TablesAfter(r) ==
  IF r = StrResult(SuccessMsg)
  THEN {tables} \cup {tables \cup {t} : t \in TableNames}
  ELSE {tables}

CreateExecute ==
  /\ pc = "ct_execute"
  /\ \E r \in RunSqlResults(FALSE) :
       /\ result' = r
       /\ executed' = Append(executed, Executed(sql, FALSE, r))
       /\ report' = CreateTableReport(sql, r)
       /\ tables' \in TablesAfter(r)
  /\ pc' = "Done"
  /\ UNCHANGED <<op, inputs, schema, raw, genFailed, sql, statements, results,
                 insert_count, llmCalls, resanitized>>
  /\ UNCHANGED db

\* ------------------------------------------------- insert_rows_from_text
InsertRowsReport(q, rs) == [kind |-> "insert", sql |-> q, results |-> rs]

InsertStart ==
  /\ pc = "Idle"
  /\ \E t \in NameInputs, d \in Descriptions :
       /\ table_name' = t
       /\ description' = d
       /\ op' = "insert"
       /\ IF t = "" \/ d = ""
          THEN /\ report' = [kind |-> "insert",
                             message |-> "Please provide both"]
               /\ pc' = "Done"
          ELSE /\ report' = report
               /\ pc' = "ir_generate"
  /\ UNCHANGED <<question, df, file, scratch, executed, llmCalls, tables,
                 resanitized>>
  /\ UNCHANGED db

InsertGenerate ==
  /\ pc = "ir_generate"
  /\ \E content \in GeneratedTexts, ok \in BOOLEAN :
       /\ raw' = CallLlm(content, ok)
       /\ genFailed' = ~ok
       /\ sql' = CleanResponse(CallLlm(content, ok))
       /\ statements' = SplitStatements(CleanResponse(CallLlm(content, ok)))
       /\ llmCalls' = Append(llmCalls,
            [fn |-> "prompt_insert_rows", question |-> description,
             context |-> table_name, rows |-> <<>>, ok |-> ok])
  /\ results' = <<>>
  /\ pc' = "ir_loop"
  /\ UNCHANGED <<op, inputs, schema, result, insert_count, executed, report,
                 tables, resanitized>>
  /\ UNCHANGED db

\* variant: the loop stops at the first statement that fails
NextStatementStopOnError(stmts, rs) ==
  IF Len(rs) < Len(stmts) /\ (rs = <<>> \/ ~HasError(rs[Len(rs)]))
  THEN Len(rs) + 1 ELSE 0

\* index of the statement the loop runs next (0: the loop is over), given
\* the results collected so far
NextStatement(stmts, rs) == IF Len(rs) < Len(stmts) THEN Len(rs) + 1 ELSE 0

\* one iteration of "for stmt in statements"
InsertExecuteStmt ==
  /\ pc = "ir_loop"
  /\ NextStatement(statements, results) # 0
  /\ \E r \in RunSqlResults(FALSE) :
       /\ result' = r
       /\ executed' = Append(executed,
            Executed(statements[NextStatement(statements, results)],
                     FALSE, r))
       /\ results' = Append(results, r)
  /\ UNCHANGED <<pc, op, inputs, schema, raw, genFailed, sql, statements,
                 insert_count, llmCalls, report, tables, resanitized>>
  /\ UNCHANGED db

InsertReturn ==
  /\ pc = "ir_loop"
  /\ NextStatement(statements, results) = 0
  /\ report' = InsertRowsReport(sql, results)
  /\ pc' = "Done"
  /\ UNCHANGED <<op, inputs, scratch, executed, llmCalls, tables, resanitized>>
  /\ UNCHANGED db


\* ------------------------------------------------------------ csv_to_sql
Quote == "'"
Chars == {"a", Quote}
NullValue == [t |-> "null"]
StrValue(s) == [t |-> "str", v |-> s]
NumValue(n) == [t |-> "num", v |-> n]
\* cells of the frames the requests upload: a missing value and a string
\* with a quote inside
CsvValues == {NullValue, StrValue(<<"a", Quote>>)}

\* frames read_csv can return: rows of equal width, possibly no row at all
DataFrames ==
  UNION {[1..n -> [1..c -> CsvValues]] : n \in 0..MaxRows, c \in 1..MaxCols}

\* variant: quotes are not doubled
EscapeNothing(s) == s

\* val.replace: every quote is doubled
RECURSIVE Escape(_)
Escape(s) ==
  IF s = <<>> THEN <<>>
  ELSE IF Head(s) = Quote THEN <<Quote, Quote>> \o Escape(Tail(s))
  ELSE <<Head(s)>> \o Escape(Tail(s))

\* the text appended to values for one cell
RenderValue(val) ==
  IF val.t = "null" THEN <<"NULL">>
  ELSE IF val.t = "str" THEN <<Quote>> \o Escape(val.v) \o <<Quote>>
  ELSE <<ToString(val.v)>>

\* sep.join(parts)
RECURSIVE Join(_, _)
Join(parts, sep) ==
  IF parts = <<>> THEN <<>>
  ELSE IF Len(parts) = 1 THEN Head(parts)
  ELSE Head(parts) \o sep \o Join(Tail(parts), sep)

RowValues(row) == [i \in 1..Len(row) |-> RenderValue(row[i])]

InsertStmt(t, row) ==
  <<"INSERT INTO ", t, " VALUES (">> \o Join(RowValues(row), <<", ">>) \o <<");">>

\* column types are not modelled: the column list is one token
CreateStmt(t) == <<"CREATE TABLE ", t, " (", "columns", ");">>

CsvReport(status, t, n, r) ==
  [kind |-> "csv", status |-> status, table |-> t, count |-> n, result |-> r]

\* upload_csv_handler, read_csv and the empty check
CsvStart ==
  /\ pc = "Idle"
  /\ \E f \in {"none", "unreadable", "ok"}, t \in NameInputs, d \in DataFrames :
       /\ file' = f
       /\ table_name' = t
       /\ op' = "csv"
       /\ IF f = "none"
          THEN /\ report' = CsvReport("Please upload a CSV file", t, 0, NoResult)
               /\ pc' = "Done" /\ df' = <<>>
          ELSE IF t = ""
          THEN /\ report' = CsvReport("Please provide a table name", t, 0, NoResult)
               /\ pc' = "Done" /\ df' = <<>>
          ELSE IF f = "unreadable"
          THEN /\ report' = CsvReport("Error processing CSV", t, 0, NoResult)
               /\ pc' = "Done" /\ df' = <<>>
          ELSE IF d = <<>>
          THEN /\ report' = CsvReport("Error: CSV file is empty", t, 0, NoResult)
               /\ pc' = "Done" /\ df' = d
          ELSE /\ report' = report
               /\ pc' = "csv_create" /\ df' = d
  /\ UNCHANGED <<question, description, scratch, executed, llmCalls, tables,
                 resanitized>>
  /\ UNCHANGED db

\* CREATE TABLE cannot succeed for a table that exists
CreateResults(t) ==
  IF t \in tables THEN {StrResult(ConnectError), StrResult(ExecuteError)}
  ELSE RunSqlResults(FALSE)

CsvCreate ==
  /\ pc = "csv_create"
  /\ \E r \in CreateResults(table_name) :
       /\ result' = r
       /\ executed' = Append(executed, Executed(CreateStmt(table_name), FALSE, r))
       /\ IF HasError(r)
          THEN /\ report' = CsvReport("Error creating table", table_name, 0, r)
               /\ pc' = "Done"
               /\ tables' = tables
          ELSE /\ report' = report
               /\ pc' = "csv_insert"
               /\ tables' = tables \cup {table_name}
  /\ insert_count' = 0
  /\ results' = <<>>
  /\ UNCHANGED <<op, inputs, schema, raw, genFailed, sql, statements,
                 llmCalls, resanitized>>
  /\ UNCHANGED db

\* variant: the loop stops at the first row that fails
NextRowStopOnError(frame, rs) ==
  IF Len(rs) < Len(frame) /\ (rs = <<>> \/ ~HasError(rs[Len(rs)]))
  THEN Len(rs) + 1 ELSE 0

\* index of the row the loop inserts next (0: the loop is over), given the
\* results of the rows inserted so far
NextRow(frame, rs) == IF Len(rs) < Len(frame) THEN Len(rs) + 1 ELSE 0

\* insert_count after one more result
Counted(n, r) == IF ~HasError(r) THEN n + 1 ELSE n

\* one iteration of "for _, row in df.iterrows()"
CsvInsertRow ==
  /\ pc = "csv_insert"
  /\ NextRow(df, results) # 0
  /\ \E r \in RunSqlResults(FALSE) :
       /\ result' = r
       /\ executed' = Append(executed,
            Executed(InsertStmt(table_name, df[NextRow(df, results)]), FALSE, r))
       /\ results' = Append(results, r)
       /\ insert_count' = Counted(insert_count, r)
  /\ UNCHANGED <<pc, op, inputs, schema, raw, genFailed, sql, statements,
                 llmCalls, report, tables, resanitized>>
  /\ UNCHANGED db

CsvReturn ==
  /\ pc = "csv_insert"
  /\ NextRow(df, results) = 0
  /\ report' = CsvReport("Success", table_name, insert_count, NoResult)
  /\ pc' = "Done"
  /\ UNCHANGED <<op, inputs, scratch, executed, llmCalls, tables, resanitized>>
  /\ UNCHANGED db

\* ------------------------------------------------------------- requests
\* the handler has returned; the next request starts from a clean slate
Reset ==
  /\ pc = "Done"
  /\ pc' = "Idle"
  /\ op' = "none"
  /\ question' = "" /\ table_name' = "" /\ description' = ""
  /\ file' = "none" /\ df' = <<>>
  /\ schema' = "" /\ raw' = NoText /\ genFailed' = FALSE /\ sql' = NoText
  /\ statements' = <<>> /\ result' = NoResult /\ results' = <<>>
  /\ insert_count' = 0
  /\ executed' = <<>> /\ llmCalls' = <<>>
  /\ report' = NoReport
  /\ UNCHANGED <<tables, resanitized>>
  /\ UNCHANGED db

Next ==
  \/ QueryStart \/ QueryGetSchema \/ QueryGenerate \/ QueryExecute
  \/ QueryExplain
  \/ CreateStart \/ CreateGenerate \/ CreateExecute
  \/ InsertStart \/ InsertGenerate \/ InsertExecuteStmt \/ InsertReturn
  \/ CsvStart \/ CsvCreate \/ CsvInsertRow \/ CsvReturn
  \/ Reset

Spec == Init /\ [][Next]_vars


\* ------------------------------------------- the sanitizer on its own
\* statements re-serialized into one text (each carries its terminator)
Reserialize(stmts) == Concat(stmts)

InitSanitize ==
  /\ pc = "san_start"
  /\ op = "sanitize"
  /\ question = "" /\ table_name = "" /\ description = ""
  /\ file = "none" /\ df = <<>>
  /\ schema = "" /\ genFailed = FALSE /\ sql = NoText
  /\ raw \in SeqsUpTo(Tokens, MaxTextLen) \cup SampleTexts
  /\ statements = <<>> /\ result = NoResult /\ results = <<>>
  /\ insert_count = 0
  /\ executed = <<>> /\ llmCalls = <<>>
  /\ report = NoReport
  /\ tables = {}
  /\ resanitized = <<>>
  /\ DbIdle

SanitizeOnce ==
  /\ pc = "san_start"
  /\ sql' = CleanResponse(raw)
  /\ statements' = SplitStatements(CleanResponse(raw))
  /\ pc' = "san_once"
  /\ UNCHANGED <<op, inputs, schema, raw, genFailed, result, results,
                 insert_count, executed, llmCalls, report, tables, resanitized>>
  /\ UNCHANGED db

SanitizeAgain ==
  /\ pc = "san_once"
  /\ resanitized' = SplitStatements(CleanResponse(Reserialize(statements)))
  /\ pc' = "san_twice"
  /\ UNCHANGED <<op, inputs, scratch, executed, llmCalls, report, tables>>
  /\ UNCHANGED db

NextSanitize == SanitizeOnce \/ SanitizeAgain

SpecSanitize == InitSanitize /\ [][NextSanitize]_vars

\* --------------------------------------- the INSERT loop on wider cells
EscValues ==
  {NullValue, NumValue(7)} \cup {StrValue(s) : s \in SeqsUpTo(Chars, MaxEscLen)}

\* csv_to_sql after a successful CREATE TABLE, about to insert one row
InitInsertRow ==
  /\ pc = "csv_insert"
  /\ op = "csv"
  /\ question = "" /\ description = ""
  /\ table_name \in TableNames
  /\ file = "ok"
  /\ \E c \in 1..MaxCols : df \in [1..1 -> [1..c -> EscValues]]
  /\ schema = "" /\ raw = NoText /\ genFailed = FALSE /\ sql = NoText
  /\ statements = <<>> /\ result = StrResult(SuccessMsg) /\ results = <<>>
  /\ insert_count = 0
  /\ executed = <<Executed(CreateStmt(table_name), FALSE, StrResult(SuccessMsg))>>
  /\ llmCalls = <<>>
  /\ report = NoReport
  /\ tables = {table_name}
  /\ resanitized = <<>>
  /\ DbIdle

NextInsertRow == CsvInsertRow \/ CsvReturn

SpecInsertRow == InitInsertRow /\ [][NextInsertRow]_vars


\* ------------------------------------------- db_utils, call by call
pipeline == <<pc, op, inputs, scratch, executed, llmCalls, report, tables,
              resanitized>>

\* the calls the handlers make: run_sql with and without fetch,
\* get_table_schema, list_tables
DbFunctions == {"run_sql_fetch", "run_sql", "get_table_schema", "list_tables"}

\* connection = get_mysql_connection() is the first statement of each
DbCall ==
  /\ dbpc = "idle"
  /\ opened < MaxCalls
  /\ \E fn \in DbFunctions : dbfn' = fn
  /\ dbpc' = "connect"
  /\ dbresult' = "none"
  /\ UNCHANGED <<connection, openConns, opened, executions>>
  /\ UNCHANGED pipeline

\* get_mysql_connection: a connection that is connected, or None when
\* connect raises or the connection is not connected; "if not connection"
\* then returns at once
DbConnect ==
  /\ dbpc = "connect"
  /\ \E how \in {"connected", "raised", "not_connected"} :
       IF how = "connected"
       THEN /\ connection' = opened + 1
            /\ openConns' = openConns \cup {opened + 1}
            /\ opened' = opened + 1
            /\ dbpc' = "execute"
            /\ dbresult' = dbresult
       ELSE /\ connection' = 0
            /\ dbpc' = "return"
            /\ dbresult' = "no_connection"
            /\ UNCHANGED <<openConns, opened>>
  /\ UNCHANGED <<dbfn, executions>>
  /\ UNCHANGED pipeline

\* cursor.execute on the connection of this call; Error leads to the handler
DbExecute ==
  /\ dbpc = "execute"
  /\ executions' = Append(executions, connection)
  /\ \E ok \in BOOLEAN :
       dbpc' = IF ~ok THEN "except"
               ELSE IF dbfn = "run_sql" THEN "commit" ELSE "fetch"
  /\ UNCHANGED <<dbfn, connection, dbresult, openConns, opened>>
  /\ UNCHANGED pipeline

\* cursor.fetchall()
DbFetch ==
  /\ dbpc = "fetch"
  /\ \E ok \in BOOLEAN : dbpc' = IF ok THEN "close" ELSE "except"
  /\ UNCHANGED <<dbfn, connection, dbresult, openConns, opened, executions>>
  /\ UNCHANGED pipeline

\* connection.commit()
DbCommit ==
  /\ dbpc = "commit"
  /\ \E ok \in BOOLEAN : dbpc' = IF ok THEN "close" ELSE "except"
  /\ UNCHANGED <<dbfn, connection, dbresult, openConns, opened, executions>>
  /\ UNCHANGED pipeline

\* variant: the handler returns the error without closing
CloseOnErrorForgotten(conns, c) == conns

\* connection.close() in "except Error"
CloseOnError(conns, c) == conns \ {c}

\* connection.close() at the end of the try block
CloseOnSuccess(conns, c) == conns \ {c}

DbClose ==
  /\ dbpc = "close"
  /\ openConns' = CloseOnSuccess(openConns, connection)
  /\ dbresult' = IF dbfn = "run_sql" THEN "ack" ELSE "rows"
  /\ dbpc' = "return"
  /\ UNCHANGED <<dbfn, connection, opened, executions>>
  /\ UNCHANGED pipeline

DbExcept ==
  /\ dbpc = "except"
  /\ openConns' = CloseOnError(openConns, connection)
  /\ dbresult' = "error"
  /\ dbpc' = "return"
  /\ UNCHANGED <<dbfn, connection, opened, executions>>
  /\ UNCHANGED pipeline

\* the function returns; its local connection goes out of scope
DbReturn ==
  /\ dbpc = "return"
  /\ dbpc' = "idle"
  /\ connection' = 0
  /\ UNCHANGED <<dbfn, dbresult, openConns, opened, executions>>
  /\ UNCHANGED pipeline

NextDb ==
  \/ DbCall \/ DbConnect \/ DbExecute \/ DbFetch \/ DbCommit
  \/ DbClose \/ DbExcept \/ DbReturn

InitDb == Init /\ tables = {}

SpecDb == InitDb /\ [][NextDb]_vars

\* =============================================================== claims
Range(f) == {f[i] : i \in DOMAIN f}
Last(q) == q[Len(q)]
CallsOf(fn) == {i \in DOMAIN llmCalls : llmCalls[i].fn = fn}
ResultsOf(log) == [i \in DOMAIN log |-> log[i].result]
QueriesOf(log) == [i \in DOMAIN log |-> log[i].query]
Successes(rs) == Cardinality({i \in DOMAIN rs : ~HasError(rs[i])})

\* C1: insert_rows_from_text runs every statement the generated text splits
\* into, once each and in generation order, whatever the earlier statements
\* returned, and the report holds one outcome per statement in that order.
C1_EveryStatementExecuted ==
  op = "insert" =>
    /\ (pc = "ir_loop" =>
          /\ Len(executed) <= Len(statements)
          /\ QueriesOf(executed) = SubSeq(statements, 1, Len(executed))
          /\ results = ResultsOf(executed))
    /\ (pc = "Done" /\ llmCalls # <<>> =>
          /\ statements = Sanitize(raw)
          /\ QueriesOf(executed) = statements
          /\ report.results = ResultsOf(executed)
          /\ Len(report.results) = Len(statements))

\* three statements, the second fails, the first and third succeed
C1_Witness ==
  /\ op = "insert" /\ pc = "Done"
  /\ Len(statements) = 3
  /\ report.results =
       <<StrResult(SuccessMsg), StrResult(ExecuteError), StrResult(SuccessMsg)>>

\* C2: query_handler on a table that does not exist calls no prompt function
\* and executes no statement once the schema lookup has failed.
C2_UnknownTableStopsRequest ==
  (op = "query" /\ question # "" /\ table_name # ""
     /\ table_name \notin tables /\ pc \notin {"Idle", "q_schema"}) =>
    /\ schema \in ErrorStrings
    /\ llmCalls = <<>>
    /\ executed = <<>>

\* C3: in create_table_from_text and query_handler a failed generation call
\* ends the request: nothing is executed and no explanation is generated.
C3_GenerationFailureShortCircuits ==
  (op \in {"create", "query"} /\ genFailed) =>
    /\ executed = <<>>
    /\ CallsOf("prompt_explain_results") = {}

\* C4: query_handler calls prompt_explain_results only after the SELECT has
\* succeeded, at most once, with the question, the cleaned SQL and the rows;
\* a failed execution is returned at once with an empty explanation.
C4_ExplainOnlyAfterSuccess ==
  op = "query" =>
    /\ Cardinality(CallsOf("prompt_explain_results")) <= 1
    /\ (pc = "q_explain" =>
          Len(executed) = 1 /\ executed[1].result.type = "dict")
    /\ \A i \in CallsOf("prompt_explain_results") :
          /\ Len(executed) = 1
          /\ executed[1].result.type = "dict"
          /\ executed[1].fetch
          /\ llmCalls[i].question = question
          /\ llmCalls[i].context = executed[1].query
          /\ llmCalls[i].rows = executed[1].result.rows
          /\ pc = "Done"
    /\ (pc = "Done" /\ executed # <<>> =>
          IF executed[1].result.type = "dict"
          THEN /\ Cardinality(CallsOf("prompt_explain_results")) = 1
               /\ report.sql = executed[1].query
          ELSE /\ CallsOf("prompt_explain_results") = {}
               /\ report = QueryReport(executed[1].result, executed[1].query,
                                       NoText))

\* the SELECT returned a row and the explanation call was made
C4_Witness ==
  /\ op = "query" /\ pc = "Done"
  /\ Len(executed) = 1
  /\ executed[1].result = RowsResult(<<"r">>)
  /\ Cardinality(CallsOf("prompt_explain_results")) = 1
  /\ report.explanation = <<"a">>


\* csv_to_sql itself was entered (the form handler passed the request on)
CsvEntered == op = "csv" /\ file # "none" /\ table_name # ""
CreateFailed == executed # <<>> /\ HasError(executed[1].result)
InsertsOf(frame, t) == [i \in DOMAIN frame |-> InsertStmt(t, frame[i])]

\* what holds of csv_to_sql once CREATE TABLE has been run
CsvAfterCreate ==
  /\ (CsvEntered /\ pc = "Done" /\ CreateFailed => Len(executed) = 1)
  /\ (CsvEntered /\ pc = "Done" /\ executed # <<>> /\ ~CreateFailed =>
        /\ report.status = "Success"
        /\ executed[1].query = CreateStmt(table_name)
        /\ QueriesOf(Tail(executed)) = InsertsOf(df, table_name)
        /\ report.count = Successes(ResultsOf(Tail(executed))))
  /\ (CsvEntered /\ pc = "csv_insert" =>
        /\ ~CreateFailed
        /\ QueriesOf(Tail(executed)) =
             SubSeq(InsertsOf(df, table_name), 1, Len(executed) - 1)
        /\ insert_count = Successes(ResultsOf(Tail(executed))))

\* C5 as stated: csv_to_sql aborts only if CREATE TABLE fails, and then runs
\* no INSERT; otherwise it runs one INSERT per row in row order whatever the
\* earlier rows returned, and reports the number of INSERTs that succeeded.
C5_AbortsOnlyOnCreateFailure ==
  /\ (CsvEntered /\ pc = "Done" /\ report.status # "Success" => CreateFailed)
  /\ CsvAfterCreate

\* C5 amended: csv_to_sql aborts before running any statement when the file
\* cannot be read or holds no row, and otherwise only if CREATE TABLE fails,
\* in which case no INSERT is run; after a successful CREATE TABLE it runs
\* one INSERT per row in row order whatever the earlier rows returned, and
\* the reported count is the number of INSERTs that succeeded.
C5_AbortsOnEmptyOrCreateFailure ==
  /\ (CsvEntered /\ pc = "Done" /\ report.status # "Success" =>
        \/ CreateFailed
        \/ executed = <<>> /\ (file = "unreadable" \/ df = <<>>))
  /\ (CsvEntered /\ pc = "Done" /\ (file = "unreadable" \/ df = <<>>) =>
        executed = <<>> /\ report.status # "Success")
  /\ CsvAfterCreate

\* two rows: the first INSERT fails, the second is still run and counted
C5_Witness ==
  /\ CsvEntered /\ pc = "Done"
  /\ Len(df) = 2 /\ Len(executed) = 3
  /\ executed[2].result = StrResult(ExecuteError)
  /\ executed[3].result = StrResult(SuccessMsg)
  /\ report.status = "Success" /\ report.count = 1

\* SQL text was generated or built for the request being served
SqlProduced == llmCalls # <<>> \/ (op = "csv" /\ executed # <<>>)

\* C6 as stated: every report of a request for which SQL was produced (CSV
\* ingest, create table, insert rows, answer question) includes SQL text.
C6_EveryReportIncludesSql ==
  (pc = "Done" /\ SqlProduced) => "sql" \in DOMAIN report

\* C6 amended: the reports of create table, insert rows and answer question
\* include the generated text as cleaned (trimmed, tagged fences removed) on
\* success and on every failure outcome; the CSV ingest report includes no
\* SQL text.
C6_GeneratedReportsIncludeCleanedSql ==
  pc = "Done" =>
    /\ (op \in {"create", "insert", "query"} /\ llmCalls # <<>> =>
          /\ "sql" \in DOMAIN report
          /\ report.sql = CleanResponse(raw))
    /\ (op = "csv" => "sql" \notin DOMAIN report)

\* a generated statement failed in the storage engine and is in the report
C6_Witness ==
  /\ pc = "Done" /\ op = "create"
  /\ Len(executed) = 1 /\ HasError(executed[1].result)
  /\ report.sql = <<"a", ";">>
  /\ report.result = executed[1].result


Generated == op \in {"create", "insert", "query"} /\ llmCalls # <<>>
SplitDone == op = "insert" /\ pc \in {"ir_loop", "Done"} /\ llmCalls # <<>>
Terminated(q) == Strip(q) # <<>> /\ Last(Strip(q)) = ";"

Wrapped(t) == Len(t) >= 2 /\ t[1] = Fence /\ Last(t) = Fence

\* C8: when the generator output is wrapped in a fenced block, tagged sql or
\* untagged, no statement handed to the storage engine contains a fence
\* marker, and a fenced single statement yields exactly that statement.
C8_FencesStripped ==
  (Generated /\ Wrapped(raw)) =>
    /\ \A i \in DOMAIN executed : Fence \notin Range(executed[i].query)
    /\ (SplitDone /\ raw \in {<<Fence, "sql", " ", "a", ";", " ", Fence>>,
                               <<Fence, " ", "a", ";", " ", Fence>>}
          => statements = <<<<"a", ";">>>>)

\* pairs of quotes collapsed to one quote; a quote on its own becomes "?"
RECURSIVE Unescape(_)
Unescape(s) ==
  IF s = <<>> THEN <<>>
  ELSE IF Head(s) = Quote
       THEN IF Len(s) >= 2 /\ s[2] = Quote
            THEN <<Quote>> \o Unescape(SubSeq(s, 3, Len(s)))
            ELSE <<"?">> \o Unescape(Tail(s))
  ELSE <<Head(s)>> \o Unescape(Tail(s))

\* the text between the parentheses of an INSERT, cut at the separators
CellsOf(stmt) == Split(SubSeq(stmt, 4, Len(stmt) - 1), ", ")

CellRendered(cell, val) ==
  IF val.t = "null" THEN cell = <<"NULL">>
  ELSE IF val.t = "str"
       THEN /\ Len(cell) >= 2
            /\ cell[1] = Quote /\ Last(cell) = Quote
            /\ Unescape(SubSeq(cell, 2, Len(cell) - 1)) = val.v
  ELSE cell = <<"7">> /\ val.v = 7

\* C9: in every INSERT built by csv_to_sql the values follow the column
\* order of the row; a string is enclosed in quotes with every quote inside
\* it doubled, a null is the bare literal NULL, any other value is its
\* plain text without quotes.
C9_ValuesEscaped ==
  op = "csv" =>
    \A i \in DOMAIN executed :
      i >= 2 =>
        LET stmt == executed[i].query
            row == df[i - 1]
        IN  /\ SubSeq(stmt, 1, 3) = <<"INSERT INTO ", table_name, " VALUES (">>
            /\ Last(stmt) = ");"
            /\ Len(CellsOf(stmt)) = Len(row)
            /\ \A c \in DOMAIN row : CellRendered(CellsOf(stmt)[c], row[c])

\* a row holding a string with a quote inside and a null was inserted
C9_Witness ==
  /\ op = "csv" /\ Len(executed) = 2
  /\ df[1] = <<StrValue(<<"a", Quote, "a">>), NullValue>>
  /\ executed[2].query =
       <<"INSERT INTO ", table_name, " VALUES (",
         Quote, "a", Quote, Quote, "a", Quote, ", ", "NULL", ");">>

\* C10: sanitizing the re-serialized statement set of a text yields the
\* statement set of the text.
C10_SanitizeIdempotent ==
  pc = "san_twice" => resanitized = statements


\* C11: every path out of run_sql, get_table_schema and list_tables closes
\* the connection the call opened: no connection is open once a call has
\* returned, at most the connection of the call under way is ever open, and
\* no two statement executions use the same connection.
C11_ConnectionScope ==
  /\ (dbpc \in {"idle", "return"} => openConns = {})
  /\ (dbpc \in {"execute", "fetch", "commit", "close", "except"} =>
        openConns = {connection} /\ connection # 0)
  /\ (dbpc = "connect" => openConns = {})
  /\ (dbresult = "no_connection" /\ dbpc = "return" => connection = 0)
  /\ \A i, j \in DOMAIN executions :
        i # j => executions[i] # executions[j]
  /\ \A i \in DOMAIN executions : executions[i] \in 1..opened

\* a call whose statement failed has returned after an earlier call that
\* succeeded, and nothing is left open
C11_Witness ==
  /\ dbpc = "return" /\ dbresult = "error"
  /\ opened = 2 /\ executions = <<1, 2>>
  /\ openConns = {}


====
